---- MODULE Spec2Model ----
(***************************************************************************)
(* Model of scripts/06.first_level/timecourse_pipeline.py: the per-run     *)
(* regressor builder (create_motion_reg), the signal conditioner and gap   *)
(* reconstructor (denoise_data), the per-subject execution graph built by  *)
(* create_resting_workflow and the batch loop of main.                     *)
(***************************************************************************)
EXTENDS Integers, Sequences, FiniteSets, TLC

VARIABLES
    \* ---- one run's data pipeline (create_motion_reg, denoise_data) ----
    pc,             \* position of the run: start, regressed, padding, done, failed
    raised,         \* the exception that ended the run, "none" otherwise
    nTimepoints,    \* rows of the confound table = volumes of the acquired series
    dropvols,       \* config: number of leading volumes dropped
    regressor_opts, \* config: requested regressor options, in order
    confound_file,  \* the confound file of the run: "ok" or "missing"
    confounds,      \* the confound table read by create_motion_reg: column -> values
    art_file,       \* the rapidart outlier file: [status, content]
    outliers,       \* OutlierList as read (sequence of indices)
    motion_params,  \* RegressorMatrix: sequence of rows
    vol_indx,       \* SampleMask: sequence of retained indices
    motion_file,    \* persisted RegressorMatrix
    scrub_file,     \* persisted SampleMask
    filter_opt,     \* config: filter mode string
    hpf,            \* config: high-pass cutoff period (seconds)
    clean_kwargs,   \* the keyword options handed to image.clean_img
    denoised_data,  \* DenoisedSeries: sequence of volumes
    denoise_file,   \* persisted DenoisedSeries
    nVols,          \* volumes of the series handed to denoise_data
    vol,            \* padding loop: current index
    d,              \* padding loop: cursor into the denoised series
    pad_imgs,       \* padding loop: volumes collected so far
    pad_file,       \* persisted PaddedSeries
    \* ---- the batch: main, process_subject, the execution graph of a subject ----
    smoothing_kernel_size, \* config: 0 disables spatial smoothing
    smooth_found,   \* config resultsDir is set and holds the smoothed file of every run
    sub_runs,       \* command line: the runs requested for every subject
    fault,          \* the input error of the batch: <<subject, run, node>>, or <<>>
    mainPc,         \* position of main: loop, running, finished, aborted
    mainRaised,     \* the exception that ended main, "none" otherwise
    subIdx,         \* index of the subject main is at
    keepruns,       \* run ids of the current subject's workflow (infosource.iterables)
    nodes,          \* state of every node of the current workflow: run id -> node -> state
    fs,             \* output files written so far: path -> content
    processed       \* subjects main is done with, in order: runs kept, node states, outcome

unitVars == <<pc, raised, nTimepoints, dropvols, regressor_opts, confound_file, confounds,
              art_file,
              outliers, motion_params, vol_indx, motion_file, scrub_file, filter_opt,
              hpf, clean_kwargs, denoised_data, denoise_file, nVols, vol, d, pad_imgs, pad_file>>

wfVars == <<smoothing_kernel_size, smooth_found, sub_runs, fault, mainPc, mainRaised, subIdx,
            keepruns, nodes, fs, processed>>

vars == <<unitVars, wfVars>>

(***************************************************************************)
(* Bounds                                                                  *)
(***************************************************************************)
MaxVols == 3
MaxDrop == 1
MaxSubjects == 2

(***************************************************************************)
(* Values                                                                  *)
(***************************************************************************)
\* a missing value (pandas NaN, read from the marker 'n/a'; np.nan in the nan volume)
NaN == -1

Range(s) == {s[i] : i \in DOMAIN s}

Max(a, b) == IF a > b THEN a ELSE b

\* np.arange(n): the sequence 0, 1, ..., n-1
arange(n) == [i \in 1..n |-> i - 1]

NoFile == [exists |-> FALSE, data |-> <<>>]

SavedFile(x) == [exists |-> TRUE, data |-> x]

(***************************************************************************)
(* Resolution of the requested regressor options to confound column names  *)
(***************************************************************************)
\* the string value of FD and DVARS is modelled as a one-element list: the
\* flattening loop appends either the string or each item of the list
regressor_dict ==
    [FD |-> <<"framewise_displacement">>,
     DVARS |-> <<"std_dvars">>,
     aCompCor |-> <<"a_comp_cor_00", "a_comp_cor_01", "a_comp_cor_02",
                    "a_comp_cor_03", "a_comp_cor_04">>]

\* keys of the dict comprehension: the options found in regressor_dict, in
\* order of first occurrence (a repeated key keeps its first position)
RECURSIVE DictKeys(_, _)
DictKeys(opts, seen) ==
    IF opts = <<>> THEN <<>>
    ELSE LET r == Head(opts) IN
         IF r \in DOMAIN regressor_dict /\ r \notin seen
         THEN <<r>> \o DictKeys(Tail(opts), seen \cup {r})
         ELSE DictKeys(Tail(opts), seen)

regressor_list(opts) == [i \in DOMAIN DictKeys(opts, {}) |-> regressor_dict[DictKeys(opts, {})[i]]]

RECURSIVE Flatten(_)
Flatten(ll) == IF ll = <<>> THEN <<>> ELSE Head(ll) \o Flatten(Tail(ll))

regressor_names(opts) == Flatten(regressor_list(opts))

AllColumns == Flatten(<<regressor_dict.FD, regressor_dict.DVARS, regressor_dict.aCompCor>>)

ColumnNo(c) == CHOOSE i \in DOMAIN AllColumns : AllColumns[i] = c

(***************************************************************************)
(* Inputs of one run                                                       *)
(***************************************************************************)
RegressorOptChoices ==
    { <<"FD">>, <<"FD", "art">>, <<"art">>, <<"DVARS", "aCompCor", "art">>,
      <<"aCompCor", "FD">>, <<"no">>, <<"DVARS", "DVARS">>, <<"FD", "GSR">> }

\* the value the confound table holds in a cell that is not missing
CellValue(c, r) == 10 * ColumnNo(c) + r + 1

\* a confound table of n rows whose missing cells are the set na of <<column, row>>
ConfoundTable(n, na) ==
    [c \in Range(AllColumns) |->
        [i \in 1..n |-> IF <<c, i - 1>> \in na THEN NaN ELSE CellValue(c, i - 1)]]

\* the tables tried: no missing value, or one missing cell, in the first or
\* the last row of one of three columns
NaChoices(n) ==
    {{}} \cup { {<<c, r>>} : c \in {"framewise_displacement", "std_dvars", "a_comp_cor_02"},
                              r \in {0, n - 1} }

\* ascending sequence of a finite set of integers
RECURSIVE SortedSeq(_)
SortedSeq(S) ==
    IF S = {} THEN <<>>
    ELSE LET m == CHOOSE x \in S : \A y \in S : x <= y
         IN <<m>> \o SortedSeq(S \ {m})

\* the outlier file: missing, zero bytes, or one index per row (rapidart writes
\* the indices of the acquired series, ascending)
ArtFiles(n) ==
    {[status |-> "missing", content |-> <<>>], [status |-> "empty", content |-> <<>>]}
    \cup {[status |-> "data", content |-> SortedSeq(S)] : S \in (SUBSET (0..(n - 1))) \ {{}}}

(***************************************************************************)
(* create_motion_reg                                                       *)
(***************************************************************************)
\* pd.read_csv(art_file, header=None)[0].astype(int) under try/except EmptyDataError
read_outliers(art) ==
    IF art.status = "missing" THEN [raised |-> "FileNotFoundError", val |-> <<>>]
    ELSE IF art.status = "empty" THEN [raised |-> "none", val |-> <<>>]
    ELSE [raised |-> "none", val |-> art.content]

\* Series.fillna(0)
fillna0(col) == [i \in DOMAIN col |-> IF col[i] = NaN THEN 0 ELSE col[i]]

\* Series.iloc[k:]
iloc_from(col, k) == [i \in 1..Max(Len(col) - k, 0) |-> col[i + k]]

\* the regressor loop with the zero-fill applied to every column
regressor_column_fill_all(conf, regressor, drop) == iloc_from(fillna0(conf[regressor]), drop)

\* one iteration of the regressor loop: the column appended for `regressor`
regressor_column(conf, regressor, drop) ==
    IF regressor = "framewise_displacement" THEN iloc_from(fillna0(conf[regressor]), drop)
    ELSE IF regressor = "std_dvars" THEN iloc_from(fillna0(conf[regressor]), drop)
    ELSE iloc_from(conf[regressor], drop)

\* pd.DataFrame(regressors).transpose(): one row per element of the columns;
\* an empty list of columns gives a frame of shape (0, 0)
transpose(cols) ==
    IF cols = <<>> THEN <<>>
    ELSE [i \in 1..Len(cols[1]) |-> [j \in 1..Len(cols) |-> cols[j][i]]]

\* np.delete(arr, [obj]): the elements of arr whose position is not in obj; a
\* position outside arr raises IndexError (numpy >= 1.19) or is ignored with a
\* DeprecationWarning (older numpy): `lenient` chooses between the two builds
np_delete(arr, obj, lenient) ==
    LET keep == SortedSeq({i \in 1..Len(arr) : (i - 1) \notin Range(obj)})
    IN  IF (\E k \in Range(obj) : k >= Len(arr)) /\ ~lenient
        THEN [raised |-> "IndexError", val |-> arr]
        ELSE [raised |-> "none", val |-> [j \in DOMAIN keep |-> arr[keep[j]]]]

\* the retained-index vector with the outlier rows removed a second time
\* (scrubbing applied to a vector already shortened by the outlier count)
retained_volumes_twice(rows, opts, outl, lenient) ==
    IF "art" \in Range(opts) /\ Len(outl) # 0
    THEN np_delete(arange(Max(rows - Len(outl), 0)), outl, TRUE)
    ELSE [raised |-> "none", val |-> arange(rows)]

\* lines 195-204: the retained-index vector
retained_volumes(rows, opts, outl, lenient) ==
    IF "art" \in Range(opts) /\ Len(outl) # 0
    THEN np_delete(arange(rows), outl, lenient)
    ELSE [raised |-> "none", val |-> arange(rows)]

create_motion_reg(conf_ok, conf, art, opts, names, drop, lenient) ==
    LET nothing == [raised |-> "none", motion_params |-> <<>>, vol_indx |-> <<>>,
                    outliers |-> <<>>, motion_file |-> NoFile, scrub_file |-> NoFile]
        outl == read_outliers(art)
        regressors == [j \in DOMAIN names |-> regressor_column(conf, names[j], drop)]
        mp == transpose(regressors)
        vi == retained_volumes(Len(mp), opts, outl.val, lenient)
    IN  IF ~conf_ok THEN [nothing EXCEPT !.raised = "FileNotFoundError"]
        ELSE IF outl.raised # "none" THEN [nothing EXCEPT !.raised = outl.raised]
        ELSE IF vi.raised # "none" THEN [nothing EXCEPT !.raised = vi.raised]
        ELSE [raised |-> "none", motion_params |-> mp, vol_indx |-> vi.val,
              outliers |-> outl.val, motion_file |-> SavedFile(mp),
              scrub_file |-> SavedFile(vi.val)]

(***************************************************************************)
(* denoise_data                                                            *)
(***************************************************************************)
FilterChoices == {"none", "cosine", "butterworth", "bandpass"}

HpfChoices == {0 - 100, 0, 100}

NoKwargs == [called |-> FALSE, sample_mask |-> <<>>, filter |-> "unset", high_pass |-> <<>>]

\* lines 264-279: hpf_hz = 1/hpf is kept as the pair <<1, hpf>>; the keyword
\* options name the filter that clean_img will apply
kwargs_opts(f, h, vi) ==
    IF f = "butterworth"
    THEN [called |-> TRUE, sample_mask |-> vi, filter |-> "butterworth", high_pass |-> <<1, h>>]
    ELSE IF f = "cosine"
    THEN [called |-> TRUE, sample_mask |-> vi, filter |-> "cosine", high_pass |-> <<1, h>>]
    ELSE [called |-> TRUE, sample_mask |-> vi, filter |-> "nofilter", high_pass |-> <<>>]

\* the cleaned volume computed from input volume i: a value that is no NaN
\* and names the volume it came from
CleanVol(i) == i + 1

\* image.clean_img(..., clean__sample_mask=vol_indx): one cleaned volume per
\* retained index, in the order of the sample mask
clean_img(kw) == [k \in DOMAIN kw.sample_mask |-> CleanVol(kw.sample_mask[k])]

\* inputs on which the source does not decide whether clean_img raises: a
\* confound matrix whose row count differs from the series, one holding NaN,
\* or a negative cutoff frequency handed to the butterworth or cosine filter
clean_img_may_raise(mp, n, kw) ==
    \/ Len(mp) # n
    \/ \E i \in DOMAIN mp : \E j \in DOMAIN mp[i] : mp[i][j] = NaN
    \/ kw.filter \in {"butterworth", "cosine"} /\ kw.high_pass[2] < 0

\* the nan volume (lines 299-302)
nan_img == NaN

\* the padding loop reading the denoised series at the volume index instead
\* of at the cursor
pad_step_by_volume(v, mask, den, cursor, imgs) ==
    IF v \in Range(mask)
    THEN IF v < Len(den)
         THEN [raised |-> "none", pad_imgs |-> Append(imgs, den[v + 1]), d |-> cursor + 1]
         ELSE [raised |-> "IndexError", pad_imgs |-> imgs, d |-> cursor]
    ELSE [raised |-> "none", pad_imgs |-> Append(imgs, nan_img), d |-> cursor]

\* the padding loop advancing the cursor at every index, member or not
pad_step_always_advance(v, mask, den, cursor, imgs) ==
    IF v \in Range(mask)
    THEN IF cursor < Len(den)
         THEN [raised |-> "none", pad_imgs |-> Append(imgs, den[cursor + 1]), d |-> cursor + 1]
         ELSE [raised |-> "IndexError", pad_imgs |-> imgs, d |-> cursor]
    ELSE [raised |-> "none", pad_imgs |-> Append(imgs, nan_img), d |-> cursor + 1]

\* one iteration of the padding loop (lines 307-314)
pad_step(v, mask, den, cursor, imgs) ==
    IF v \in Range(mask)
    THEN IF cursor < Len(den)
         THEN [raised |-> "none", pad_imgs |-> Append(imgs, den[cursor + 1]), d |-> cursor + 1]
         ELSE [raised |-> "IndexError", pad_imgs |-> imgs, d |-> cursor]
    ELSE [raised |-> "none", pad_imgs |-> Append(imgs, nan_img), d |-> cursor]

(***************************************************************************)
(* State machine of one run                                                *)
(***************************************************************************)
Init ==
    /\ pc = "start"
    /\ raised = "none"
    /\ nTimepoints \in 1..MaxVols
    /\ dropvols \in 0..MaxDrop
    /\ dropvols < nTimepoints
    /\ regressor_opts \in RegressorOptChoices
    /\ confound_file = "ok"
    /\ confounds = ConfoundTable(nTimepoints, {})
    /\ art_file = [status |-> "missing", content |-> <<>>]
    /\ outliers = <<>>
    /\ motion_params = <<>>
    /\ vol_indx = <<>>
    /\ motion_file = NoFile
    /\ scrub_file = NoFile
    /\ filter_opt \in FilterChoices
    /\ hpf \in HpfChoices
    /\ clean_kwargs = NoKwargs
    /\ denoised_data = <<>>
    /\ denoise_file = NoFile
    /\ nVols = 0
    /\ vol = 0
    /\ d = 0
    /\ pad_imgs = <<>>
    /\ pad_file = NoFile
    /\ smoothing_kernel_size = 0
    /\ smooth_found = FALSE
    /\ sub_runs = {}
    /\ fault = <<>>
    /\ mainPc = "loop"
    /\ mainRaised = "none"
    /\ subIdx = 1
    /\ keepruns = {}
    /\ nodes = <<>>
    /\ fs = <<>>
    /\ processed = <<>>

CreateMotionReg ==
    /\ UNCHANGED wfVars
    /\ pc = "start"
    /\ \E conf_ok \in BOOLEAN, na \in NaChoices(nTimepoints),
          art \in ArtFiles(nTimepoints), lenient \in BOOLEAN :
          LET conf == ConfoundTable(nTimepoints, na)
              r == create_motion_reg(conf_ok, conf, art, regressor_opts,
                                     regressor_names(regressor_opts), dropvols, lenient)
          IN  /\ confound_file' = IF conf_ok THEN "ok" ELSE "missing"
              /\ confounds' = conf
              /\ art_file' = art
              /\ raised' = r.raised
              /\ pc' = IF r.raised = "none" THEN "regressed" ELSE "failed"
              /\ outliers' = r.outliers
              /\ motion_params' = r.motion_params
              /\ vol_indx' = r.vol_indx
              /\ motion_file' = r.motion_file
              /\ scrub_file' = r.scrub_file
    /\ UNCHANGED <<nTimepoints, dropvols, regressor_opts, filter_opt, hpf, clean_kwargs,
                   denoised_data, denoise_file, nVols, vol, d, pad_imgs, pad_file>>

\* denoise_data up to the start of the padding loop (lines 245-306)
DenoiseClean ==
    /\ UNCHANGED wfVars
    /\ pc = "regressed"
    /\ \E clean_raises \in BOOLEAN :
          /\ IF hpf = 0
             THEN /\ raised' = "ZeroDivisionError"
                  /\ pc' = "failed"
                  /\ UNCHANGED <<clean_kwargs, denoised_data, denoise_file, nVols>>
             ELSE LET kw == kwargs_opts(filter_opt, hpf, vol_indx)
                      n == nTimepoints - dropvols
                  IN  /\ clean_kwargs' = kw
                      /\ IF clean_raises /\ clean_img_may_raise(motion_params, n, kw)
                         THEN /\ raised' = "ValueError"
                              /\ pc' = "failed"
                              /\ UNCHANGED <<denoised_data, denoise_file, nVols>>
                         ELSE /\ denoised_data' = clean_img(kw)
                              /\ denoise_file' = SavedFile(clean_img(kw))
                              /\ nVols' = n
                              /\ raised' = "none"
                              /\ pc' = "padding"
    /\ vol' = 0
    /\ d' = 0
    /\ pad_imgs' = <<>>
    /\ UNCHANGED <<nTimepoints, dropvols, regressor_opts, confound_file, confounds, art_file,
                   outliers, motion_params, vol_indx, motion_file, scrub_file, filter_opt,
                   hpf, pad_file>>

\* one iteration of `for vol in all_vols_vec` (lines 307-314)
PadStep ==
    /\ UNCHANGED wfVars
    /\ pc = "padding"
    /\ vol < nVols
    /\ LET r == pad_step(vol, vol_indx, denoised_data, d, pad_imgs)
       IN  /\ pad_imgs' = r.pad_imgs
           /\ d' = r.d
           /\ raised' = r.raised
           /\ pc' = IF r.raised = "none" THEN "padding" ELSE "failed"
    /\ vol' = vol + 1
    /\ UNCHANGED <<nTimepoints, dropvols, regressor_opts, confound_file, confounds, art_file,
                   outliers, motion_params, vol_indx, motion_file, scrub_file, filter_opt, hpf,
                   clean_kwargs, denoised_data, denoise_file, nVols, pad_file>>

\* concatenation and saving of the padded series (lines 316-323)
PadSave ==
    /\ UNCHANGED wfVars
    /\ pc = "padding"
    /\ vol = nVols
    /\ pad_file' = SavedFile(pad_imgs)
    /\ pc' = "done"
    /\ UNCHANGED <<raised, nTimepoints, dropvols, regressor_opts, confound_file, confounds, art_file,
                   outliers, motion_params, vol_indx, motion_file, scrub_file, filter_opt,
                   hpf, clean_kwargs, denoised_data, denoise_file, nVols, vol, d, pad_imgs>>

Next == CreateMotionReg \/ DenoiseClean \/ PadStep \/ PadSave

Spec == Init /\ [][Next]_vars

(***************************************************************************)
(* Output paths (data_grabber, create_motion_reg, denoise_data, datasink)  *)
(***************************************************************************)
\* '{}'.format(run_id): the decimal digits of a run id
RECURSIVE Digits(_)
Digits(r) == IF r < 10 THEN <<r>> ELSE Digits(r \div 10) \o <<r % 10>>

\* '{:02d}'.format(run_id): the digits, zero-padded to two places
format_02d(r) == IF r < 10 THEN <<0, r>> ELSE Digits(r)

\* a path below the output directory: the subject directory sub-{sub}, the
\* stage directory, the run directory 'run{}' when there is one, and the
\* file name built from 'sub-{}', 'run-{:02d}' and a suffix
OutPath(sub, dir, rundir, runtag, name) ==
    [sub |-> sub, dir |-> dir, rundir |-> rundir, runtag |-> runtag, name |-> name]

\* lines 96-99: outDir/preproc/run{run_id}/<name of the functional file>
preproc_path(sub, r) == OutPath(sub, "preproc", Digits(r), format_02d(r), "preproc_bold")

\* the regressor file named after the subject alone
motion_file_path_norun(sub, r) == OutPath(sub, "regressors", <<>>, <<>>, "confounds")

\* line 209: outDir/regressors/sub-{}_run-{:02d}_confounds.txt
motion_file_path(sub, r) == OutPath(sub, "regressors", <<>>, format_02d(r), "confounds")

\* line 210: outDir/regressors/sub-{}_run-{:02d}_retained_volumes.txt
scrub_file_path(sub, r) == OutPath(sub, "regressors", <<>>, format_02d(r), "retained_volumes")

\* lines 246, 285: outDir/denoised/run{}/sub-{}_run-{:02d}_denoised_bold.nii.gz
denoise_file_path(sub, r) == OutPath(sub, "denoised", Digits(r), format_02d(r), "denoised_bold")

\* line 320: outDir/denoised/run{}/sub-{}_run-{:02d}_denoised_padded_bold.nii.gz
pad_file_path(sub, r) ==
    OutPath(sub, "denoised", Digits(r), format_02d(r), "denoised_padded_bold")

\* lines 354-361: the smoothed file stored by the datasink under preproc/run{}
sink_path(sub, r) == OutPath(sub, "preproc", Digits(r), format_02d(r), "preproc_bold_smooth")

\* what a node writes when it completes: path -> content; the content is
\* computed from the inputs of the node's own run
NodeOutputs(sub, r, n) ==
    IF n = "datasource" THEN {<<preproc_path(sub, r), <<"bold", sub, r>>>>}
    ELSE IF n = "regressorinfo"
    THEN {<<motion_file_path(sub, r), <<"confounds", sub, r>>>>,
          <<scrub_file_path(sub, r), <<"retained_volumes", sub, r>>>>}
    ELSE IF n = "cleansignal" THEN {<<pad_file_path(sub, r), <<"padded", sub, r>>>>}
    ELSE IF n = "datasink" THEN {<<sink_path(sub, r), <<"smoothed", sub, r>>>>}
    ELSE {}

\* the file system after the writes W (a set of <<path, content>>)
Write(f, W) ==
    [q \in DOMAIN f \cup {w[1] : w \in W} |->
        IF \E w \in W : w[1] = q THEN (CHOOSE w \in W : w[1] = q)[2] ELSE f[q]]

(***************************************************************************)
(* The execution graph of one subject (create_resting_workflow)            *)
(***************************************************************************)
\* line 549: plugin_args n_procs
n_procs == 4

RunIdChoices == {1, 11}

SmoothingChoices == {0, 6}

DropChoices == {0, 1}

run_smoothing == smoothing_kernel_size # 0

\* the nodes wired into the workflow, per run id
NodeNames ==
    {"datasource", "regressorinfo", "cleansignal"}
    \cup (IF run_smoothing THEN {"smooth", "datasink"} ELSE {})
    \cup (IF dropvols # 0 THEN {"extractroi"} ELSE {})

\* the workflow without the connection from regressorinfo to cleansignal
ConnectionsUnordered ==
    {<<"datasource", "regressorinfo">>, <<"datasource", "cleansignal">>}
    \cup (IF run_smoothing
          THEN {<<"datasource", "smooth">>, <<"smooth", "datasink">>} ELSE {})
    \cup (IF dropvols # 0
          THEN {IF run_smoothing
                THEN <<"smooth", "extractroi">> ELSE <<"datasource", "extractroi">>,
                <<"extractroi", "cleansignal">>}
          ELSE IF run_smoothing THEN {<<"smooth", "cleansignal">>} ELSE {})

\* the wf.connect calls: <<from, to>> (the infosource identity node only hands
\* the run id to the nodes of its run)
Connections ==
    {<<"datasource", "regressorinfo">>,                         \* lines 224-225
     <<"datasource", "cleansignal">>,                           \* line 328
     <<"regressorinfo", "cleansignal">>}                        \* lines 329-331
    \cup (IF run_smoothing
          THEN {<<"datasource", "smooth">>,                     \* lines 130-131
                <<"smooth", "datasink">>}                       \* line 361
          ELSE {})
    \cup (IF dropvols # 0
          THEN {IF run_smoothing
                THEN <<"smooth", "extractroi">>                 \* line 138
                ELSE <<"datasource", "extractroi">>,            \* line 141
                <<"extractroi", "cleansignal">>}                \* line 344
          ELSE IF run_smoothing
               THEN {<<"smooth", "cleansignal">>}               \* line 348
               ELSE {})                                         \* line 351

\* lines 85-101: the functional file data_grabber returns (and copies to
\* preproc/run{}): the file found under resultsDir, written there by the
\* datasink of an earlier execution after one pass of smoothing, or else the
\* preprocessed file, never smoothed
data_grabber(found) ==
    IF found THEN [file |-> "smooth_file", smoothed |-> 1, t_min |-> 0]
    ELSE [file |-> "mni_file", smoothed |-> 0, t_min |-> 0]

\* create_susan_smooth with the configured fwhm: one more pass of smoothing
susan_smooth(img) == [img EXCEPT !.smoothed = @ + 1]

\* fsl.ExtractROI(t_min=dropvols, t_size=-1)
ExtractROI(img) == [img EXCEPT !.t_min = @ + dropvols]

\* the image a node hands on, following the connections of its in_file / in_files
RECURSIVE node_image(_, _)
node_image(n, found) ==
    IF n = "smooth" THEN susan_smooth(node_image("datasource", found))
    ELSE IF n = "extractroi"
    THEN ExtractROI(node_image(IF run_smoothing THEN "smooth" ELSE "datasource", found))
    ELSE data_grabber(found)

\* lines 341-351: the node connected to the input `imgs` of cleansignal
imgs_source ==
    IF dropvols # 0 THEN "extractroi"
    ELSE IF run_smoothing THEN "smooth"
    ELSE "datasource"

Predecessors(n) == {e[1] : e \in {c \in Connections : c[2] = n}}

RECURSIVE Descendants(_)
Descendants(n) ==
    LET next == {e[2] : e \in {c \in Connections : c[1] = n}}
    IN  next \cup UNION {Descendants(m) : m \in next}

Started(st) == st \in {"running", "padding", "done", "crashed"}

Ended(st) == st \in {"done", "crashed", "skipped"}

Running == {rn \in keepruns \X NodeNames : nodes[rn[1]][rn[2]] \in {"running", "padding"}}

(***************************************************************************)
(* State machine of the batch                                              *)
(***************************************************************************)
Faults ==
    {<<>>} \cup ((1..MaxSubjects) \X RunIdChoices \X {"datasource", "regressorinfo", "cleansignal"})

InitWf ==
    /\ pc = "start"
    /\ raised = "none"
    /\ nTimepoints = MaxVols
    /\ dropvols \in DropChoices
    /\ regressor_opts = <<"FD">>
    /\ confound_file = "ok"
    /\ confounds = ConfoundTable(MaxVols, {})
    /\ art_file = [status |-> "empty", content |-> <<>>]
    /\ outliers = <<>>
    /\ motion_params = <<>>
    /\ vol_indx = <<>>
    /\ motion_file = NoFile
    /\ scrub_file = NoFile
    /\ filter_opt = "none"
    /\ hpf = 100
    /\ clean_kwargs = NoKwargs
    /\ denoised_data = <<>>
    /\ denoise_file = NoFile
    /\ nVols = 0
    /\ vol = 0
    /\ d = 0
    /\ pad_imgs = <<>>
    /\ pad_file = NoFile
    /\ smoothing_kernel_size \in SmoothingChoices
    /\ smooth_found \in BOOLEAN
    /\ sub_runs \in (SUBSET RunIdChoices) \ {{}}
    /\ fault \in Faults
    /\ mainPc = "loop"
    /\ mainRaised = "none"
    /\ subIdx = 1
    /\ keepruns = {}
    /\ nodes = <<>>
    /\ fs = <<>>
    /\ processed = <<>>

\* main, lines 531-540: process_subject for the next subject and the
\* construction of its workflow. `scans` is whether the scans file is found,
\* `excluded` the requested runs that the motion and task filter removes; a
\* subject left with no run is recorded with the outcome "no_runs"
ProcessSubject ==
    /\ mainPc = "loop"
    /\ \E scans \in BOOLEAN, excluded \in {{}, sub_runs} :
          LET kept == sub_runs \ excluded
          IN  IF ~scans
              THEN /\ mainPc' = "aborted"
                   /\ mainRaised' = "IndexError"
                   /\ UNCHANGED <<keepruns, nodes, processed>>
              ELSE IF kept = {}
              THEN /\ mainPc' = "aborted"
                   /\ mainRaised' = "FileNotFoundError"
                   /\ processed' = Append(processed,
                                      [sub |-> subIdx, runs |-> {}, nodes |-> <<>>,
                                       outcome |-> "no_runs"])
                   /\ UNCHANGED <<keepruns, nodes>>
              ELSE /\ mainPc' = "running"
                   /\ keepruns' = kept
                   /\ nodes' = [r \in kept |-> [n \in NodeNames |-> "waiting"]]
                   /\ UNCHANGED <<mainRaised, processed>>
    /\ UNCHANGED <<smoothing_kernel_size, smooth_found, sub_runs, fault, subIdx, fs>>
    /\ UNCHANGED unitVars

\* MultiProc: a node whose predecessors all completed is handed to a free worker
StartNode(r, n) ==
    /\ mainPc = "running"
    /\ nodes[r][n] = "waiting"
    /\ \A m \in Predecessors(n) : nodes[r][m] = "done"
    /\ Cardinality(Running) < n_procs
    /\ nodes' = [nodes EXCEPT ![r][n] = "running"]
    /\ UNCHANGED <<smoothing_kernel_size, smooth_found, sub_runs, fault, mainPc, mainRaised,
                   subIdx, keepruns, fs, processed>>
    /\ UNCHANGED unitVars

\* a node raises on the input error of its run: the nodes that depend on it
\* are not run, the rest of the graph goes on
CrashNode(r, n) ==
    /\ mainPc = "running"
    /\ nodes[r][n] = "running"
    /\ fault = <<subIdx, r, n>>
    /\ nodes' = [nodes EXCEPT ![r] =
                    [m \in NodeNames |->
                        IF m = n THEN "crashed"
                        ELSE IF m \in Descendants(n) THEN "skipped"
                        ELSE nodes[r][m]]]
    /\ UNCHANGED <<smoothing_kernel_size, smooth_found, sub_runs, fault, mainPc, mainRaised,
                   subIdx, keepruns, fs, processed>>
    /\ UNCHANGED unitVars

\* denoise_data, lines 282-286: the denoised series is computed and saved
CleanSignalDenoise(r) ==
    /\ mainPc = "running"
    /\ nodes[r]["cleansignal"] = "running"
    /\ fault # <<subIdx, r, "cleansignal">>
    /\ fs' = Write(fs, {<<denoise_file_path(subIdx, r), <<"denoised", subIdx, r>>>>})
    /\ nodes' = [nodes EXCEPT ![r]["cleansignal"] = "padding"]
    /\ UNCHANGED <<smoothing_kernel_size, smooth_found, sub_runs, fault, mainPc, mainRaised,
                   subIdx, keepruns, processed>>
    /\ UNCHANGED unitVars

\* a node completes and its outputs are written (for cleansignal: the padded
\* series, lines 304-321)
FinishNode(r, n) ==
    /\ mainPc = "running"
    /\ nodes[r][n] = (IF n = "cleansignal" THEN "padding" ELSE "running")
    /\ fault # <<subIdx, r, n>>
    /\ fs' = Write(fs, NodeOutputs(subIdx, r, n))
    /\ nodes' = [nodes EXCEPT ![r][n] = "done"]
    /\ UNCHANGED <<smoothing_kernel_size, smooth_found, sub_runs, fault, mainPc, mainRaised,
                   subIdx, keepruns, processed>>
    /\ UNCHANGED unitVars

\* wf.run returns (line 550): it raises when a node crashed, and nothing in
\* main catches it; otherwise the loop goes to the next subject
WfRunReturn ==
    /\ mainPc = "running"
    /\ \A r \in keepruns : \A n \in NodeNames : Ended(nodes[r][n])
    /\ LET crashed == \E r \in keepruns : \E n \in NodeNames : nodes[r][n] = "crashed"
       IN  /\ processed' = Append(processed,
                              [sub |-> subIdx, runs |-> keepruns, nodes |-> nodes,
                               outcome |-> IF crashed THEN "crashed" ELSE "ok"])
           /\ IF crashed
              THEN /\ mainPc' = "aborted"
                   /\ mainRaised' = "RuntimeError"
                   /\ UNCHANGED <<subIdx, keepruns, nodes>>
              ELSE /\ subIdx' = subIdx + 1
                   /\ mainPc' = IF subIdx + 1 > MaxSubjects THEN "finished" ELSE "loop"
                   /\ keepruns' = {}
                   /\ nodes' = <<>>
                   /\ UNCHANGED mainRaised
    /\ UNCHANGED <<smoothing_kernel_size, smooth_found, sub_runs, fault, fs>>
    /\ UNCHANGED unitVars

NextWf ==
    \/ ProcessSubject
    \/ \E r \in keepruns : \E n \in NodeNames : StartNode(r, n)
    \/ \E r \in keepruns : \E n \in NodeNames : CrashNode(r, n)
    \/ \E r \in keepruns : CleanSignalDenoise(r)
    \/ \E r \in keepruns : \E n \in NodeNames : FinishNode(r, n)
    \/ WfRunReturn

SpecWf == InitWf /\ [][NextWf]_vars

(***************************************************************************)
(* Vocabulary of the properties                                            *)
(***************************************************************************)
\* volumes of the series after the leading volumes are dropped
PostDrop == nTimepoints - dropvols

\* OutlierList of the run, as a set
OutlierSet == Range(art_file.content)

\* create_motion_reg ran to its return statement
Built == motion_file.exists

ScrubEnabled == "art" \in Range(regressor_opts)

\* create_motion_reg was called on a readable confound table
BuilderCalled == pc # "start" /\ confound_file = "ok"

StrictlyIncreasing(s) == \A i, j \in DOMAIN s : i < j => s[i] < s[j]

RegressorNames == regressor_names(regressor_opts)

(***************************************************************************)
(* C1: when the padding loop has run over a SampleMask that is a strictly  *)
(* increasing subset of [0,nVols) and a DenoisedSeries of |SampleMask|     *)
(* volumes, the PaddedSeries has exactly nVols volumes, its volume i is    *)
(* the nan volume iff i is not in SampleMask, and its volumes at the       *)
(* SampleMask indices, read in order, are the DenoisedSeries; the loop     *)
(* does not fail on such inputs.                                           *)
(***************************************************************************)
C1_Precondition ==
    /\ denoise_file.exists
    /\ StrictlyIncreasing(vol_indx)
    /\ Range(vol_indx) \subseteq 0..(nVols - 1)
    /\ Len(denoised_data) = Len(vol_indx)

C1_PaddedRoundTrip ==
    C1_Precondition =>
        /\ pc # "failed"
        /\ pc = "done" =>
            /\ pad_file.exists
            /\ Len(pad_file.data) = nVols
            /\ \A i \in 0..(nVols - 1) :
                  pad_file.data[i + 1] = nan_img <=> i \notin Range(vol_indx)
            /\ [k \in DOMAIN vol_indx |-> pad_file.data[vol_indx[k] + 1]] = denoised_data

\* a padded series with a gap in the middle
C1_Witness ==
    /\ pc = "done"
    /\ C1_Precondition
    /\ nVols = 3
    /\ vol_indx = <<0, 2>>
    /\ pad_file.data = <<CleanVol(0), nan_img, CleanVol(2)>>

(***************************************************************************)
(* C2: with scrubbing enabled and an OutlierList O that is a subset of     *)
(* [0,n), n the post-drop volume count, create_motion_reg returns and      *)
(* persists SampleMask = sorted([0,n) \ O), strictly increasing, with      *)
(* n - |O| entries.                                                        *)
(***************************************************************************)
C2_ScrubbedSampleMask ==
    (/\ BuilderCalled
     /\ art_file.status # "missing"
     /\ ScrubEnabled
     /\ OutlierSet \subseteq 0..(PostDrop - 1)) =>
        /\ Built
        /\ vol_indx = SortedSeq((0..(PostDrop - 1)) \ OutlierSet)
        /\ scrub_file = SavedFile(vol_indx)
        /\ StrictlyIncreasing(vol_indx)
        /\ Len(vol_indx) = PostDrop - Cardinality(OutlierSet)

(***************************************************************************)
(* C3: with scrubbing disabled, the SampleMask of create_motion_reg is the *)
(* full range [0,n) whatever the OutlierList holds.                        *)
(***************************************************************************)
C3_UnscrubbedSampleMask ==
    (/\ BuilderCalled
     /\ art_file.status # "missing"
     /\ ~ScrubEnabled) =>
        /\ Built
        /\ vol_indx = arange(PostDrop)

(***************************************************************************)
(* C4: an outlier file that is empty or missing raises no error in         *)
(* create_motion_reg: the OutlierList is empty and the SampleMask is the   *)
(* full range [0,n), with scrubbing enabled or not.                        *)
(***************************************************************************)
C4_EmptyOrMissingOutlierFile ==
    (/\ BuilderCalled
     /\ art_file.status \in {"missing", "empty"}) =>
        /\ Built
        /\ outliers = <<>>
        /\ vol_indx = arange(PostDrop)

(***************************************************************************)
(* C5 as stated: the RegressorMatrix returned by create_motion_reg has as  *)
(* many rows as the SampleMask has entries.                                *)
(***************************************************************************)
C5_RowsEqualSampleMask == Built => Len(motion_params) = Len(vol_indx)

\* the outlier indices np.delete removed from the retained-index vector
ScrubbedVolumes ==
    IF ScrubEnabled THEN Range(outliers) \cap (0..(Len(motion_params) - 1)) ELSE {}

(***************************************************************************)
(* C5 amended: the RegressorMatrix keeps one row per post-drop volume,     *)
(* scrubbed or not: its row count is |SampleMask| plus the number of       *)
(* scrubbed volumes (so it equals |SampleMask| exactly when nothing is     *)
(* scrubbed), and it is the post-drop volume count whenever a regressor    *)
(* column is selected.                                                     *)
(***************************************************************************)
C5_RowsCoverScrubbedVolumes ==
    Built =>
        /\ Len(motion_params) = Len(vol_indx) + Cardinality(ScrubbedVolumes)
        /\ RegressorNames # <<>> => Len(motion_params) = PostDrop
        /\ motion_file = SavedFile(motion_params)

\* two of three volumes scrubbed: three rows, one retained index
C5_Witness ==
    /\ Built
    /\ ScrubEnabled
    /\ Len(motion_params) = 3
    /\ Cardinality(ScrubbedVolumes) = 2
    /\ Len(vol_indx) = 1

(***************************************************************************)
(* C6 as stated: zero-fill happens only in the frame-wise-displacement     *)
(* column, every other column passes through unchanged, and a run whose    *)
(* table has a missing value in another selected column fails instead of   *)
(* producing a RegressorMatrix.                                            *)
(***************************************************************************)
C6_FillOnlyFramewiseDisplacement ==
    Built =>
        LET names == RegressorNames
        IN  \A i \in DOMAIN motion_params : \A j \in DOMAIN names :
                LET raw == confounds[names[j]][i + dropvols]
                IN  /\ names[j] = "framewise_displacement" =>
                          motion_params[i][j] = (IF raw = NaN THEN 0 ELSE raw)
                    /\ names[j] # "framewise_displacement" =>
                          /\ motion_params[i][j] = raw
                          /\ raw # NaN

ZeroFilledColumns == {"framewise_displacement", "std_dvars"}

(***************************************************************************)
(* C6 amended: missing values are replaced by zero in the frame-wise-      *)
(* displacement and the standardized-DVARS columns; every other column     *)
(* passes through unchanged, a missing value included, into the returned   *)
(* and the persisted RegressorMatrix: create_motion_reg raises no error    *)
(* for it.                                                                 *)
(***************************************************************************)
C6_FillPolicy ==
    LET names == RegressorNames
    IN  /\ Built =>
            /\ \A i \in DOMAIN motion_params :
                  /\ Len(motion_params[i]) = Len(names)
                  /\ \A j \in DOMAIN names :
                        LET raw == confounds[names[j]][i + dropvols]
                        IN  motion_params[i][j] =
                                IF names[j] \in ZeroFilledColumns /\ raw = NaN
                                THEN 0 ELSE raw
            /\ motion_file = SavedFile(motion_params)
        /\ (BuilderCalled /\ ~Built) =>
               \/ raised = "FileNotFoundError" /\ art_file.status = "missing"
               \/ /\ raised = "IndexError"
                  /\ \E k \in OutlierSet : names = <<>> \/ k >= PostDrop

\* a missing anatomical-component value persisted next to a DVARS column
C6_Witness ==
    /\ Built
    /\ "std_dvars" \in Range(RegressorNames)
    /\ \E i \in DOMAIN motion_file.data : \E j \in DOMAIN RegressorNames :
          /\ RegressorNames[j] = "a_comp_cor_02"
          /\ motion_file.data[i][j] = NaN

RecognizedFilters == {"none", "cosine", "butterworth"}

(***************************************************************************)
(* C7: with a filter mode that is none of none, cosine, butterworth,       *)
(* denoise_data never calls clean_img and produces no DenoisedSeries and   *)
(* no PaddedSeries.                                                        *)
(***************************************************************************)
C7_UnrecognizedFilterIsFatal ==
    filter_opt \notin RecognizedFilters =>
        /\ ~clean_kwargs.called
        /\ ~denoise_file.exists
        /\ ~pad_file.exists
        /\ pc \notin {"padding", "done"}

(***************************************************************************)
(* Vocabulary of the batch properties                                      *)
(***************************************************************************)
\* every output a completed node of run r of subject sub has written
CompletedOutputs(sub, r, nd) ==
    UNION {NodeOutputs(sub, r, n) : n \in {m \in DOMAIN nd : nd[m] = "done"}}
    \cup (IF nd["cleansignal"] \in {"padding", "done"}
          THEN {<<denoise_file_path(sub, r), <<"denoised", sub, r>>>>} ELSE {})

\* the output paths of one run
RunPaths(sub, r) ==
    {preproc_path(sub, r), motion_file_path(sub, r), scrub_file_path(sub, r),
     denoise_file_path(sub, r), pad_file_path(sub, r), sink_path(sub, r)}

(***************************************************************************)
(* C8: in every schedule and every smoothing / drop-volume configuration,  *)
(* the regressor builder of a run starts only after the run's input        *)
(* discovery completed; the signal conditioner starts only after the       *)
(* regressor builder completed (RegressorMatrix and SampleMask written)    *)
(* and after smoothing and volume dropping, when configured, completed;    *)
(* and the padded series is built only after the denoised series exists.   *)
(***************************************************************************)
C8_StageOrder ==
    \A r \in keepruns :
        /\ Started(nodes[r]["regressorinfo"]) => nodes[r]["datasource"] = "done"
        /\ Started(nodes[r]["cleansignal"]) =>
              /\ nodes[r]["datasource"] = "done"
              /\ nodes[r]["regressorinfo"] = "done"
              /\ motion_file_path(subIdx, r) \in DOMAIN fs
              /\ scrub_file_path(subIdx, r) \in DOMAIN fs
              /\ run_smoothing => nodes[r]["smooth"] = "done"
              /\ dropvols # 0 => nodes[r]["extractroi"] = "done"
        /\ nodes[r]["cleansignal"] = "padding" => denoise_file_path(subIdx, r) \in DOMAIN fs
        /\ pad_file_path(subIdx, r) \in DOMAIN fs => denoise_file_path(subIdx, r) \in DOMAIN fs

\* one run is padding after smoothing and volume dropping while the other
\* run of the subject has not started its regressor builder
C8_Witness ==
    /\ mainPc = "running"
    /\ run_smoothing
    /\ dropvols # 0
    /\ \E r1, r2 \in keepruns :
          /\ nodes[r1]["cleansignal"] = "padding"
          /\ nodes[r2]["regressorinfo"] = "waiting"

(***************************************************************************)
(* C9: two distinct run ids of one subject write disjoint sets of output   *)
(* paths, and under every interleaving of the runs' nodes every output     *)
(* file of a completed node holds the content computed by its own run, as  *)
(* it does when the runs execute one after another.                        *)
(***************************************************************************)
C9_RunOutputsIndependent ==
    /\ \A sub \in 1..MaxSubjects : \A r1, r2 \in RunIdChoices :
          r1 # r2 => RunPaths(sub, r1) \cap RunPaths(sub, r2) = {}
    /\ \A r \in keepruns : \A w \in CompletedOutputs(subIdx, r, nodes[r]) :
          w[1] \in DOMAIN fs /\ fs[w[1]] = w[2]
    /\ \A i \in DOMAIN processed : \A r \in processed[i].runs :
          \A w \in CompletedOutputs(processed[i].sub, r, processed[i].nodes[r]) :
              w[1] \in DOMAIN fs /\ fs[w[1]] = w[2]

\* both runs of a subject completed, their nodes interleaved
C9_Witness ==
    /\ keepruns = {1, 11}
    /\ \A r \in keepruns : \A n \in NodeNames : nodes[r][n] = "done"
    /\ fs[pad_file_path(subIdx, 1)] = <<"padded", subIdx, 1>>
    /\ fs[pad_file_path(subIdx, 11)] = <<"padded", subIdx, 11>>

(***************************************************************************)
(* C10: when a node of one run fails on that run's input, the other runs   *)
(* of the subject still run all their stages and every later subject of    *)
(* the batch is still processed.                                           *)
(***************************************************************************)
C10_RunFailureIsIsolated ==
    mainPc \in {"finished", "aborted"} =>
        \A i \in DOMAIN processed :
            processed[i].outcome = "crashed" =>
                /\ \A r \in processed[i].runs :
                      (\A n \in NodeNames : processed[i].nodes[r][n] # "crashed") =>
                          \A n \in NodeNames : processed[i].nodes[r][n] = "done"
                /\ \A s2 \in (processed[i].sub + 1)..MaxSubjects :
                      \E j \in DOMAIN processed : processed[j].sub = s2

(***************************************************************************)
(* C11: when a subject has zero retained runs after the motion-exclusion,  *)
(* task and requested-run filtering, the condition raised is not the       *)
(* file-not-found error, main is not ended by it, and once main has ended  *)
(* every later subject of the batch has been processed.                    *)
(***************************************************************************)
C11_NoEligibleDataIsDistinct ==
    \A i \in DOMAIN processed :
        processed[i].outcome = "no_runs" =>
            /\ mainRaised # "FileNotFoundError"
            /\ mainPc # "aborted"
            /\ mainPc = "finished" =>
                  \A s2 \in (processed[i].sub + 1)..MaxSubjects :
                      \E j \in DOMAIN processed : processed[j].sub = s2

\* the requested kinds that are no key of regressor_dict and not the scrub option
UnrecognizedKinds ==
    {regressor_opts[i] : i \in DOMAIN regressor_opts} \ (DOMAIN regressor_dict \cup {"art"})

(***************************************************************************)
(* C12: a request holding a regressor kind that is neither in the alias    *)
(* set nor the scrub-enable option ends in an error where the kinds are    *)
(* resolved to column names: no RegressorMatrix is built from the kinds    *)
(* that remain, and the run gets no further than that error.               *)
(***************************************************************************)
C12_UnrecognizedRegressorIsFatal ==
    UnrecognizedKinds # {} =>
        /\ ~Built
        /\ motion_params = <<>>
        /\ pc \in {"start", "failed"}

(***************************************************************************)
(* C13: with a high-pass cutoff period that is zero or negative,           *)
(* denoise_data fails at the conversion 1 / period under every filter      *)
(* mode: clean_img is never called, and neither a DenoisedSeries nor a     *)
(* PaddedSeries is produced.                                               *)
(***************************************************************************)
C13_NonPositiveCutoffIsFatal ==
    hpf <= 0 =>
        /\ ~clean_kwargs.called
        /\ denoised_data = <<>> /\ ~denoise_file.exists
        /\ ~pad_file.exists
        /\ (pc \notin {"start", "regressed"} /\ Built) =>
               pc = "failed" /\ raised = "ZeroDivisionError"

\* the padding loop is at the start of the iteration for index vol, or at its exit
InPaddingLoop == pc \in {"padding", "done"}

\* the members of SampleMask smaller than v
MembersBelow(v) == {m \in Range(vol_indx) : m < v}

C14_CursorState ==
    C1_Precondition =>
        /\ raised # "IndexError"
        /\ InPaddingLoop =>
              /\ d = Cardinality(MembersBelow(vol))
              /\ (vol < nVols /\ vol \in Range(vol_indx)) => d \in 0..(Len(vol_indx) - 1)
              /\ vol = nVols => d = Len(vol_indx)

C14_CursorStep ==
    (C1_Precondition /\ pc = "padding" /\ vol' = vol + 1) =>
        /\ vol \notin Range(vol_indx) => d' = d /\ pad_imgs' = Append(pad_imgs, nan_img)
        /\ vol \in Range(vol_indx) =>
              d' = d + 1 /\ pad_imgs' = Append(pad_imgs, denoised_data[d + 1])

(***************************************************************************)
(* C14: cursor invariant of the padding loop. When SampleMask is a         *)
(* strictly increasing subset of [0,nVols) and the DenoisedSeries has      *)
(* |SampleMask| volumes: at the start of the iteration for index v the     *)
(* cursor d is the number of SampleMask members smaller than v; every read *)
(* of the DenoisedSeries uses a cursor in [0, |SampleMask|-1] (no read     *)
(* fails); an iteration at a non-member index leaves the cursor unchanged  *)
(* and an iteration at a member index advances it by one; at loop exit d   *)
(* equals |SampleMask|.                                                    *)
(***************************************************************************)
C14_CursorInvariant == []C14_CursorState /\ [][C14_CursorStep]_vars

\* the loop about to read at cursor 1 after an iteration at a scrubbed index
C14_Witness ==
    /\ C1_Precondition
    /\ pc = "padding"
    /\ nVols = 3
    /\ vol_indx = <<0, 2>>
    /\ vol = 2
    /\ d = 1
    /\ pad_imgs = <<CleanVol(0), nan_img>>

\* the series handed to denoise_data as `imgs`
cleansignal_imgs == node_image(imgs_source, smooth_found)

(***************************************************************************)
(* C15: smoothing is never applied to data that is already smoothed. With  *)
(* a non-zero kernel size and a previously smoothed file selected by the   *)
(* data grabber as the functional input of a run, the smoothing stage of   *)
(* that run is not run, and the series the signal conditioner receives     *)
(* was smoothed exactly once.                                              *)
(***************************************************************************)
C15_NoDoubleSmoothing ==
    (run_smoothing /\ smooth_found) =>
        \A r \in keepruns :
            /\ nodes[r]["datasource"] = "done" => ~Started(nodes[r]["smooth"])
            /\ Started(nodes[r]["cleansignal"]) => cleansignal_imgs.smoothed = 1

====
